---- MODULE Spec2Model ----
(***************************************************************************)
(* Model of the LinkedIn job collector (src/main.py): URL canonicalizer,   *)
(* employee-range classifier, filter pipeline and the dedup & delivery     *)
(* cycle run_once driven by main.                                          *)
(*                                                                         *)
(* Python strings are modelled as sequences of one-character strings.      *)
(***************************************************************************)
EXTENDS Integers, Sequences, FiniteSets, TLC

(***************************************************************************)
(* Python str primitives used by the program.                              *)
(***************************************************************************)

\* Code-point order of the characters that occur in the model (str.__lt__).
CodePoints ==
    <<"\n", " ", "#", "+", "-", ".", "/", "0", "1", "2", "3", "4", "5", "6",
      "7", "8", "9", ":", "?", "A", "E", "a", "b", "c", "d", "e", "h", "i", "j",
      "k", "l", "m", "n", "o", "p", "s", "t", "v", "w", "x", "y">>

Ord(c) == CHOOSE i \in 1..Len(CodePoints) : CodePoints[i] = c

IsDigitChar(c) == c \in {"0", "1", "2", "3", "4", "5", "6", "7", "8", "9"}

IsSpaceChar(c) == c \in {" ", "\n"}

\* \w of the re module
IsWordChar(c) == ~IsSpaceChar(c) /\ c \notin {"#", "+", "-", ".", "/", ":", "?"}

\* s.startswith(p)
StartsWith(s, p) == Len(s) >= Len(p) /\ SubSeq(s, 1, Len(p)) = p

\* s[i:i+len(p)] == p
MatchAt(s, i, p) == i + Len(p) - 1 <= Len(s) /\ SubSeq(s, i, i + Len(p) - 1) = p

\* p in s
Contains(s, p) == \E i \in 1..(Len(s) + 1) : MatchAt(s, i, p)

\* s.split(c)[0]
SplitFirst(s, c) ==
    IF \E i \in 1..Len(s) : s[i] = c
    THEN SubSeq(s, 1, (CHOOSE i \in 1..Len(s) :
                          s[i] = c /\ \A j \in 1..(i - 1) : s[j] # c) - 1)
    ELSE s

\* s.split(c)[-1]
SplitLast(s, c) ==
    IF \E i \in 1..Len(s) : s[i] = c
    THEN SubSeq(s, (CHOOSE i \in 1..Len(s) :
                       s[i] = c /\ \A j \in (i + 1)..Len(s) : s[j] # c) + 1, Len(s))
    ELSE s

\* s.rstrip(c)
RECURSIVE RStrip(_, _)
RStrip(s, c) ==
    IF s # <<>> /\ s[Len(s)] = c THEN RStrip(SubSeq(s, 1, Len(s) - 1), c) ELSE s

\* s.strip()
RECURSIVE Strip(_)
Strip(s) ==
    IF s # <<>> /\ IsSpaceChar(s[1]) THEN Strip(Tail(s))
    ELSE IF s # <<>> /\ IsSpaceChar(s[Len(s)]) THEN Strip(SubSeq(s, 1, Len(s) - 1))
    ELSE s

\* s.isdigit()
IsDigit(s) == s # <<>> /\ \A i \in 1..Len(s) : IsDigitChar(s[i])

\* s < t for str
RECURSIVE StrLess(_, _)
StrLess(s, t) ==
    IF t = <<>> THEN FALSE
    ELSE IF s = <<>> THEN TRUE
    ELSE IF s[1] = t[1] THEN StrLess(Tail(s), Tail(t))
    ELSE Ord(s[1]) < Ord(t[1])

\* sorted(S) for a set of str
RECURSIVE Sorted(_)
Sorted(S) ==
    IF S = {} THEN <<>>
    ELSE LET m == CHOOSE x \in S : \A y \in S \ {x} : StrLess(x, y)
         IN  <<m>> \o Sorted(S \ {m})

(***************************************************************************)
(* URL canonicalizer.                                                      *)
(***************************************************************************)

ORIGIN ==
    <<"h", "t", "t", "p", "s", ":", "/", "/", "w", "w", "w", ".",
      "l", "i", "n", "k", "e", "d", "i", "n", ".", "c", "o", "m">>

JOBS_VIEW == <<"/", "j", "o", "b", "s", "/", "v", "i", "e", "w", "/">>

\* `$` of the re module: the end of the string, or just before a final newline
AtEnd(s, p) == p = Len(s) + 1 \/ (p = Len(s) /\ s[p] = "\n")

\* ends k of a group ([^/]+) that starts at j and is followed by /?$
GroupEnds(s, j) ==
    { k \in j..Len(s) :
        /\ \A q \in j..k : s[q] # "/"
        /\ \/ AtEnd(s, k + 1)
           \/ (k + 1 <= Len(s) /\ s[k + 1] = "/" /\ AtEnd(s, k + 2)) }

\* starts of a match of /jobs/view/([^/]+)/?$ in base
SegmentMatches(base) ==
    { i \in 1..Len(base) :
        MatchAt(base, i, JOBS_VIEW) /\ GroupEnds(base, i + Len(JOBS_VIEW)) # {} }

\* match.group(1) of re.search: leftmost match, greedy group
SegmentOf(base) ==
    LET i == CHOOSE x \in SegmentMatches(base) : \A y \in SegmentMatches(base) : x <= y
        j == i + Len(JOBS_VIEW)
        k == CHOOSE x \in GroupEnds(base, j) : \A y \in GroupEnds(base, j) : y <= x
    IN  SubSeq(base, j, k)

\* no slug handling: the whole segment is the id
JobIdWholeSegment(segment) == segment

JobIdOf(segment) ==
    IF IsDigit(segment) THEN segment
    ELSE IF IsDigit(SplitLast(segment, "-")) THEN SplitLast(segment, "-")
    ELSE segment

normalize_job_url(url) ==
    LET full == IF StartsWith(url, <<"/">>) THEN ORIGIN \o url ELSE url
        base == SplitFirst(SplitFirst(full, "?"), "#")
    IN  IF ~Contains(base, JOBS_VIEW) THEN base
        ELSE IF SegmentMatches(base) = {} THEN base
        ELSE ORIGIN \o JOBS_VIEW \o JobIdOf(RStrip(SegmentOf(base), "/"))

(***************************************************************************)
(* Company-size extractor: the regular expressions of                      *)
(* _parse_employee_range_from_text, matched as the re module matches them. *)
(* A pattern is a sequence of elements:                                    *)
(*   [t |-> "b"]                 \b                                        *)
(*   [t |-> "lit", s |-> chars]  literal text (re.IGNORECASE)              *)
(*   [t |-> "ws", min |-> n]     \s* (n = 0) or \s+ (n = 1)                *)
(*   [t |-> "opt", c |-> char]   c?                                        *)
(*   [t |-> "count51"]           (?:5[1-9]|[6-9]\d|\d{3,})                 *)
(***************************************************************************)

\* re.IGNORECASE folding of the characters of the model
Lower(c) == IF c = "E" THEN "e" ELSE IF c = "A" THEN "a" ELSE c

\* \b at position p (between s[p-1] and s[p])
WordBoundary(s, p) ==
    LET before == p > 1 /\ p - 1 <= Len(s) /\ IsWordChar(s[p - 1])
        after  == p >= 1 /\ p <= Len(s) /\ IsWordChar(s[p])
    IN  before # after

\* positions reached from p by one pattern element
ElementEnds(e, s, p) ==
    CASE e.t = "b"   -> IF WordBoundary(s, p) THEN {p} ELSE {}
      [] e.t = "lit" ->
            IF /\ p + Len(e.s) - 1 <= Len(s)
               /\ \A i \in 1..Len(e.s) : Lower(s[p + i - 1]) = e.s[i]
            THEN {p + Len(e.s)} ELSE {}
      [] e.t = "ws"  ->
            { q \in (p + e.min)..(Len(s) + 1) :
                \A i \in p..(q - 1) : IsSpaceChar(s[i]) }
      [] e.t = "opt" ->
            {p} \cup (IF p <= Len(s) /\ Lower(s[p]) = e.c THEN {p + 1} ELSE {})
      [] e.t = "count51" ->
            { q \in (p + 2)..(Len(s) + 1) :
                /\ \A i \in p..(q - 1) : IsDigitChar(s[i])
                /\ \/ q - p >= 3
                   \/ s[p] = "5" /\ s[p + 1] # "0"
                   \/ s[p] \in {"6", "7", "8", "9"} }

\* positions reached from the set P by elements k.. of pat
RECURSIVE PatternEnds(_, _, _, _)
PatternEnds(pat, k, s, P) ==
    IF k > Len(pat) THEN P
    ELSE PatternEnds(pat, k + 1, s,
                     UNION { ElementEnds(pat[k], s, p) : p \in P })

\* re.search(pat, text, re.IGNORECASE) is not None
re_search(pat, text) ==
    \E p \in 1..(Len(text) + 1) : PatternEnds(pat, 1, text, {p}) # {}

B == [t |-> "b"]
Lit(chars) == [t |-> "lit", s |-> chars]
Ws0 == [t |-> "ws", min |-> 0]
Ws1 == [t |-> "ws", min |-> 1]
Opt(ch) == [t |-> "opt", c |-> ch]
Employee == Lit(<<"e", "m", "p", "l", "o", "y", "e", "e">>)

\* \bLO\s*-\s*HI\s+employees?\b
RangePattern(lo, hi) ==
    <<B, Lit(lo), Ws0, Lit(<<"-">>), Ws0, Lit(hi), Ws1, Employee, Opt("s"), B>>

in_range_patterns ==
    << RangePattern(<<"1">>, <<"1", "0">>),
       RangePattern(<<"1", "1">>, <<"5", "0">>),
       <<B, Lit(<<"1">>), Ws1, Employee, B>>,
       RangePattern(<<"2">>, <<"1", "0">>) >>

out_of_range_patterns ==
    << RangePattern(<<"5", "1">>, <<"2", "0", "0">>),
       RangePattern(<<"2", "0", "1">>, <<"5", "0", "0">>),
       RangePattern(<<"5", "0", "1">>, <<"1", "0", "0", "0">>),
       RangePattern(<<"1", "0", "0", "1">>, <<"5", "0", "0", "0">>),
       RangePattern(<<"5", "0", "0", "1">>, <<"1", "0", "0", "0", "0">>),
       <<B, Lit(<<"1", "0", "0", "0", "1">>), Ws0, Lit(<<"+">>), Ws0,
         Employee, Opt("s"), B>>,
       <<B, [t |-> "count51"], Ws1, Employee, Opt("s"), B>> >>

AnyMatch(pats, text) == \E i \in 1..Len(pats) : re_search(pats[i], text)

\* the out-of-range patterns tested before the in-range ones
ParseOutOfRangeFirst(text) ==
    IF AnyMatch(out_of_range_patterns, text) THEN FALSE
    ELSE AnyMatch(in_range_patterns, text)

_parse_employee_range_from_text(text) ==
    IF AnyMatch(in_range_patterns, text) THEN TRUE
    ELSE IF AnyMatch(out_of_range_patterns, text) THEN FALSE
    ELSE FALSE

(***************************************************************************)
(* Fetched documents.  A job-detail document is represented by what the    *)
(* BeautifulSoup queries of the program read from it; a failed fetch_page  *)
(* (requests.RequestException) has status "RequestException".              *)
(***************************************************************************)

\* job-detail documents: header present, header text contains " via ",
\* some button/link label has "apply on " and a third-party keyword, href
\* of the first header link with "/company/" (after query stripping; "" if
\* none) and the text of that link
Page(hdr, via, third, curl, cname) ==
    [status |-> "ok", header |-> hdr, via |-> via, third_party_apply |-> third,
     company_url |-> curl, company_name |-> cname]

FetchFailed ==
    [status |-> "RequestException", header |-> FALSE, via |-> FALSE,
     third_party_apply |-> FALSE, company_url |-> "", company_name |-> ""]

COMPANY_URL == "https://www.linkedin.com/company/acme"

PageAcme     == Page(TRUE, FALSE, FALSE, COMPANY_URL, "Acme")
PageNoName   == Page(TRUE, FALSE, FALSE, COMPANY_URL, "")
PageVia      == Page(TRUE, TRUE, FALSE, COMPANY_URL, "Acme")
PageIndeed   == Page(TRUE, FALSE, TRUE, COMPANY_URL, "Acme")
PageNoHeader == Page(FALSE, FALSE, FALSE, "", "")
PageNoLink   == Page(TRUE, FALSE, FALSE, "", "")

DetailResults ==
    {FetchFailed, PageAcme, PageNoName, PageVia, PageIndeed, PageNoHeader, PageNoLink}

\* company-profile documents: the visible text, or a failed fetch
EMPLOYEES == <<"e", "m", "p", "l", "o", "y", "e", "e", "s">>
TextSmall == <<"1", "1", "-", "5", "0", " ">> \o EMPLOYEES
TextLarge == <<"2", "0", "1", "-", "5", "0", "0", " ">> \o EMPLOYEES
TextNone  == <<"a", "b", "o", "u", "t">>

CompanyDoc(t) == [status |-> "ok", text |-> t]
CompanyFetchFailed == [status |-> "RequestException", text |-> <<>>]

CompanyResults ==
    {CompanyFetchFailed, CompanyDoc(TextSmall), CompanyDoc(TextLarge), CompanyDoc(TextNone)}

is_first_party_job(html) ==
    IF html.header /\ html.via THEN FALSE
    ELSE IF html.third_party_apply THEN FALSE
    ELSE TRUE

parse_company_profile_url_from_job_page(html) ==
    IF ~html.header THEN "" ELSE html.company_url

parse_company_name_from_job_page(html) ==
    IF ~html.header THEN "" ELSE html.company_name

\* company is the result of fetch_page(company_url, session)
is_company_size_1_to_50(job_page_html, company) ==
    IF parse_company_profile_url_from_job_page(job_page_html) = "" THEN FALSE
    ELSE IF company.status = "RequestException" THEN FALSE
    ELSE _parse_employee_range_from_text(company.text)

JobResult(u, c) == [url |-> u, company_name |-> c]

\* a loop whose try encloses the whole for statement: the first failed
\* job-detail fetch ends the batch
RECURSIVE FilterAbortOnFailure(_, _, _)
FilterAbortOnFailure(job_urls, web, results) ==
    IF job_urls = <<>> THEN results
    ELSE LET url  == Head(job_urls)
             html == web.detail[url]
         IN  IF html.status = "RequestException" THEN results
             ELSE FilterAbortOnFailure(Tail(job_urls), web,
                    IF is_first_party_job(html)
                       /\ is_company_size_1_to_50(html, web.company[url])
                    THEN Append(results,
                                JobResult(url, parse_company_name_from_job_page(html)))
                    ELSE results)

\* the for loop of filter_first_party_jobs, results being the accumulator;
\* web.detail[url] and web.company[url] are what fetch_page returns for the
\* job-detail page of url and for its company page
RECURSIVE FilterLoop(_, _, _)
FilterLoop(job_urls, web, results) ==
    IF job_urls = <<>> THEN results
    ELSE LET url  == Head(job_urls)
             html == web.detail[url]
         IN  FilterLoop(Tail(job_urls), web,
                IF html.status = "RequestException" THEN results
                ELSE IF is_first_party_job(html)
                        /\ is_company_size_1_to_50(html, web.company[url])
                THEN Append(results,
                            JobResult(url, parse_company_name_from_job_page(html)))
                ELSE results)

filter_first_party_jobs(job_urls, web) == FilterLoop(job_urls, web, <<>>)

(***************************************************************************)
(* Listing discovery and the persisted store (data.csv).                   *)
(***************************************************************************)

\* hrefs is the set of href attributes of the <a> elements of the document
parse_job_links_from_search(hrefs) ==
    LET Full(h) == IF StartsWith(h, <<"/">>) THEN ORIGIN \o h ELSE h
        Base(h) == SplitFirst(SplitFirst(Full(h), "?"), "#")
        links   == { normalize_job_url(Base(h)) :
                       h \in { g \in hrefs : /\ Contains(g, JOBS_VIEW)
                                             /\ Contains(Base(g), JOBS_VIEW) } }
    IN  Sorted(links)

\* search is the result of fetch_page for the one search page (limit_pages=1)
collect_recent_remote_engineer_jobs(search, web) ==
    LET page_links   == IF search.status = "RequestException" THEN <<>>
                        ELSE parse_job_links_from_search(search.hrefs)
        all_job_urls == { page_links[i] : i \in 1..Len(page_links) }
    IN  filter_first_party_jobs(Sorted(all_job_urls), web)

\* the identity load_existing_job_urls gives to a stored job_url field
StoredIdentity(field) ==
    LET raw == Strip(field)
    IN  IF Contains(raw, JOBS_VIEW) THEN normalize_job_url(raw) ELSE raw

\* rows are the data rows of the file, [company, job_url]
load_existing_job_urls(rows) ==
    { StoredIdentity(rows[i].job_url) :
        i \in { k \in 1..Len(rows) : rows[k].job_url # <<>> } }

\* the rows written last job first
RowsOfReversed(job_seq) ==
    [ i \in 1..Len(job_seq) |->
        [company |-> job_seq[Len(job_seq) + 1 - i].company_name,
         job_url |-> job_seq[Len(job_seq) + 1 - i].url] ]

\* the rows writer.writerow adds for jobs
RowsOf(job_seq) ==
    [ i \in 1..Len(job_seq) |->
        [company |-> job_seq[i].company_name, job_url |-> job_seq[i].url] ]

(***************************************************************************)
(* Notifier.                                                               *)
(***************************************************************************)

\* what the Slack endpoint does with one chat.postMessage request:
\*   "ok"               a JSON object with ok = true
\*   "not_ok"           a JSON object whose ok is false or missing
\*   "RequestException" requests.post raises (timeout, connection error)
\*   "not_json"         the body is not JSON (an HTML error page)
\*   "not_object"       the body is JSON but not an object (a list, null)
SlackResponses == {"ok", "not_ok", "RequestException", "not_json", "not_object"}

\* The result of send_job_to_slack: "True", "False", or the name of the
\* exception that leaves the function.  resp.json() on a body that is not
\* JSON raises requests.exceptions.JSONDecodeError, a RequestException, in
\* requests >= 2.27 and a plain ValueError in earlier releases (json_is_req
\* tells which); data.get on a body that is not an object raises
\* AttributeError.
send_job_to_slack(channel_id, token, resp, json_is_req) ==
    IF token = "" \/ channel_id = "" THEN "False"
    ELSE CASE resp = "RequestException" -> "False"
           [] resp = "not_json"   -> IF json_is_req THEN "False" ELSE "ValueError"
           [] resp = "not_object" -> "AttributeError"
           [] resp = "not_ok"     -> "False"
           [] resp = "ok"         -> "True"

\* every job of the loop is recorded as posted, whatever the notifier said
PostedRegardless(posted, job, sent) == Append(posted, job)

\* jobs_posted_to_slack after the loop body for job: sent is the truth of
\* send_job_to_slack(...) or TRUE when no token is set
PostedAfter(posted, job, sent) == IF sent THEN Append(posted, job) ELSE posted

\* every new job is written, delivered or not
AppendAllNew(posted, new) == new

\* the argument run_once passes to append_jobs_to_csv
JobsToAppend(posted, new) == posted

\* the append is not held back until the loop is over
LoopDoneEarly(k, job_seq) == k > Len(job_seq) \/ k > 1

\* the for loop over new_jobs has run its last iteration
LoopDone(k, job_seq) == k > Len(job_seq)

(***************************************************************************)
(* Inputs of the model.                                                    *)
(***************************************************************************)

MaxCycles == 2
MaxParts == 2

\* hrefs a search page may carry
HrefNumeric == JOBS_VIEW \o <<"1">>
HrefSlug    == ORIGIN \o JOBS_VIEW \o <<"a", "-", "1", "?", "x">>
HrefTwo     == JOBS_VIEW \o <<"2">>
HrefSpace   == JOBS_VIEW \o <<"2", " ">>
HrefOther   == <<"/", "c", "o", "m", "p", "a", "n", "y", "/", "x">>
Hrefs == {HrefNumeric, HrefSlug, HrefTwo, HrefSpace, HrefOther}

SearchOk(hs) == [status |-> "ok", hrefs |-> hs]
SearchFailed == [status |-> "RequestException", hrefs |-> {}]
SearchResults == {SearchFailed} \cup { SearchOk(hs) : hs \in SUBSET Hrefs }

\* the job URLs discovery can produce from Hrefs
JobUrls ==
    LET l == parse_job_links_from_search(Hrefs) IN { l[k] : k \in 1..Len(l) }

\* what the site answers for the pages of the discovered jobs in one cycle
CycleWebs ==
    [detail  : [JobUrls -> {FetchFailed, PageAcme, PageVia}],
     company : [JobUrls -> {CompanyDoc(TextSmall)}]]

\* the results collect_recent_remote_engineer_jobs can return in one cycle
CycleFinds ==
    { collect_recent_remote_engineer_jobs(search, web) :
        search \in SearchResults, web \in CycleWebs }

NoWeb == [detail |-> [u \in JobUrls |-> FetchFailed],
          company |-> [u \in JobUrls |-> CompanyFetchFailed]]

NoCycle == [valid |-> FALSE, jobs |-> <<>>, notifier |-> FALSE, appended |-> 0]

Tokens == {"", "xoxb"}
Channels == {"", "C0"}

VARIABLES
    store,                 \* data rows of data.csv, in file order
    file_exists,           \* data.csv exists (its header row is written)
    pc,                    \* "sleep", "deliver" (loop of run_once), "stopped"
    stop_cause,            \* exception that ended the process, "" if none
    slack_token,           \* SLACK_BOT_TOKEN, stripped ("" when unset)
    channel_id,            \* SLACK_CHANNEL_ID ("" when unset)
    existing_urls, jobs, new_jobs, jobs_posted_to_slack, \* locals of run_once
    idx,                   \* position of the for loop in new_jobs
    total,                 \* the total of the last summary report
    cycles,                \* run_once calls begun
    send_ok, send_failed,  \* urls sent with result True / False in this cycle
    ok_ever,               \* urls accepted and delivered (or exempt) in a cycle
    pending,               \* urls whose delivery failed, posting not stored since
    lost,                  \* urls notified in a cycle interrupted before its append
    last,                  \* the last completed cycle
    raw_a, raw_b, job_id, norm_a, norm_b,  \* normalize_job_url on two forms
    text_parts, is_small,                  \* _parse_employee_range_from_text
    f_urls, f_web, f_results,              \* filter_first_party_jobs
    phase                                  \* "input" / "output" of the three above

cycle_vars == <<existing_urls, jobs, new_jobs, jobs_posted_to_slack, idx>>
ghost_vars == <<send_ok, send_failed, ok_ever, pending, lost, last>>
fn_vars == <<raw_a, raw_b, job_id, norm_a, norm_b, text_parts, is_small,
             f_urls, f_web, f_results, phase>>
vars == <<store, file_exists, pc, stop_cause, slack_token, channel_id,
          cycle_vars, total, cycles, ghost_vars, fn_vars>>

UrlsOf(job_seq) == { job_seq[k].url : k \in 1..Len(job_seq) }
FieldsOf(rows) == { rows[k].job_url : k \in 1..Len(rows) }
IdentitiesOf(urls) == { StoredIdentity(u) : u \in urls }

\* the rows a step has added to the file
Added(before, after) == SubSeq(after, Len(before) + 1, Len(after))

\* the urls of S whose posting is not among the rows a step has added
StillOut(S, before, after) ==
    { u \in S : StoredIdentity(u) \notin load_existing_job_urls(Added(before, after)) }

FnIdle ==
    /\ raw_a = <<>> /\ raw_b = <<>> /\ job_id = <<>>
    /\ norm_a = <<>> /\ norm_b = <<>>
    /\ text_parts = <<>> /\ is_small = FALSE
    /\ f_urls = <<>> /\ f_web = NoWeb /\ f_results = <<>>
    /\ phase = "idle"

ProcessStart ==
    /\ pc = "sleep"
    /\ stop_cause = ""
    /\ slack_token \in Tokens
    /\ channel_id \in Channels
    /\ existing_urls = {} /\ jobs = <<>> /\ new_jobs = <<>>
    /\ jobs_posted_to_slack = <<>> /\ idx = 1
    /\ send_ok = {} /\ send_failed = {}

(***************************************************************************)
(* main and run_once.                                                      *)
(***************************************************************************)

\* python main.py with no data.csv
Init ==
    /\ store = <<>> /\ file_exists = FALSE
    /\ ProcessStart
    /\ total = 0 /\ cycles = 0
    /\ ok_ever = {} /\ pending = {} /\ lost = {} /\ last = NoCycle
    /\ FnIdle

\* run_once up to the for loop: load, collect, classify
BeginCycle ==
    /\ pc = "sleep"
    /\ cycles < MaxCycles
    /\ \E found \in CycleFinds :
         LET existing == load_existing_job_urls(store)
             IsNew(j) == j.url \notin existing
         IN  /\ existing_urls' = existing
             /\ jobs' = found
             /\ new_jobs' = SelectSeq(found, IsNew)
    /\ jobs_posted_to_slack' = <<>>
    /\ idx' = 1
    /\ send_ok' = {} /\ send_failed' = {}
    /\ pc' = "deliver"
    /\ cycles' = cycles + 1
    /\ UNCHANGED <<store, file_exists, stop_cause, slack_token, channel_id, total,
                   ok_ever, pending, lost, last, fn_vars>>

\* one iteration of the loop with a token: send_job_to_slack returns
Deliver ==
    /\ pc = "deliver"
    /\ ~LoopDone(idx, new_jobs)
    /\ slack_token # ""
    /\ \E resp \in SlackResponses, json_is_req \in BOOLEAN :
         LET job == new_jobs[idx]
             r   == send_job_to_slack(channel_id, slack_token, resp, json_is_req)
         IN  /\ r \in {"True", "False"}
             /\ jobs_posted_to_slack' = PostedAfter(jobs_posted_to_slack, job, r = "True")
             /\ send_ok' = IF r = "True" THEN send_ok \cup {job.url} ELSE send_ok
             /\ send_failed' = IF r = "False" THEN send_failed \cup {job.url}
                               ELSE send_failed
    /\ idx' = idx + 1
    /\ UNCHANGED <<store, file_exists, pc, stop_cause, slack_token, channel_id,
                   existing_urls, jobs, new_jobs, total, cycles,
                   ok_ever, pending, lost, last, fn_vars>>

\* one iteration of the loop without a token
DeliverByDefault ==
    /\ pc = "deliver"
    /\ ~LoopDone(idx, new_jobs)
    /\ slack_token = ""
    /\ jobs_posted_to_slack' = PostedAfter(jobs_posted_to_slack, new_jobs[idx], TRUE)
    /\ idx' = idx + 1
    /\ UNCHANGED <<store, file_exists, pc, stop_cause, slack_token, channel_id,
                   existing_urls, jobs, new_jobs, total, cycles,
                   ghost_vars, fn_vars>>

\* an exception leaves send_job_to_slack, run_once and main
DeliverRaises ==
    /\ pc = "deliver"
    /\ ~LoopDone(idx, new_jobs)
    /\ slack_token # ""
    /\ \E resp \in SlackResponses, json_is_req \in BOOLEAN :
         LET r == send_job_to_slack(channel_id, slack_token, resp, json_is_req)
         IN  /\ r \notin {"True", "False"}
             /\ stop_cause' = r
    /\ pc' = "stopped"
    /\ pending' = pending \cup send_failed
    /\ UNCHANGED <<store, file_exists, slack_token, channel_id, cycle_vars, total,
                   cycles, send_ok, send_failed, ok_ever, lost, last, fn_vars>>

\* run_once after the loop (append, summary) and main's sleep
Finish ==
    /\ pc = "deliver"
    /\ LoopDone(idx, new_jobs)
    /\ LET out == JobsToAppend(jobs_posted_to_slack, new_jobs)
       IN  /\ IF jobs_posted_to_slack # <<>>
              THEN /\ store' = store \o RowsOf(out)
                   /\ file_exists' = TRUE
              ELSE UNCHANGED <<store, file_exists>>
           /\ last' = [valid |-> TRUE, jobs |-> jobs, notifier |-> slack_token # "",
                       appended |-> Len(store') - Len(store)]
    /\ total' = Cardinality(existing_urls) + Len(jobs_posted_to_slack)
    /\ ok_ever' = ok_ever \cup
                    { u \in UrlsOf(jobs) : slack_token = "" \/ u \in send_ok }
    /\ pending' = StillOut(pending \cup send_failed, store, store')
    /\ lost' = StillOut(lost, store, store')
    /\ pc' = "sleep"
    /\ UNCHANGED <<stop_cause, slack_token, channel_id, cycle_vars, cycles,
                   send_ok, send_failed, fn_vars>>

\* KeyboardInterrupt, re-raised by main (or raised in its sleep)
Interrupt ==
    /\ pc \in {"sleep", "deliver"}
    /\ pc' = "stopped"
    /\ stop_cause' = "KeyboardInterrupt"
    /\ lost' = IF pc = "deliver" THEN lost \cup send_ok ELSE lost
    /\ pending' = IF pc = "deliver" THEN pending \cup send_failed ELSE pending
    /\ UNCHANGED <<store, file_exists, slack_token, channel_id, cycle_vars, total,
                   cycles, send_ok, send_failed, ok_ever, last, fn_vars>>

\* python main.py again, data.csv as the last process left it
Restart ==
    /\ pc = "stopped"
    /\ pc' = "sleep"
    /\ stop_cause' = ""
    /\ slack_token' \in Tokens
    /\ channel_id' \in Channels
    /\ existing_urls' = {} /\ jobs' = <<>> /\ new_jobs' = <<>>
    /\ jobs_posted_to_slack' = <<>> /\ idx' = 1
    /\ send_ok' = {} /\ send_failed' = {}
    /\ UNCHANGED <<store, file_exists, total, cycles, ok_ever, pending, lost, last,
                   fn_vars>>

Next ==
    \/ BeginCycle
    \/ Deliver
    \/ DeliverByDefault
    \/ DeliverRaises
    \/ Finish
    \/ Interrupt
    \/ Restart

Spec == Init /\ [][Next]_vars

(***************************************************************************)
(* The pure functions applied to bounded inputs.                           *)
(***************************************************************************)

CoordinatorIdle ==
    /\ store = <<>> /\ file_exists = FALSE
    /\ pc = "sleep" /\ stop_cause = ""
    /\ slack_token = "" /\ channel_id = ""
    /\ existing_urls = {} /\ jobs = <<>> /\ new_jobs = <<>>
    /\ jobs_posted_to_slack = <<>> /\ idx = 1
    /\ send_ok = {} /\ send_failed = {}
    /\ total = 0 /\ cycles = 0
    /\ ok_ever = {} /\ pending = {} /\ lost = {} /\ last = NoCycle

coordinator_vars ==
    <<store, file_exists, pc, stop_cause, slack_token, channel_id, cycle_vars,
      total, cycles, ghost_vars>>

\* raw forms of one posting
JobIds == {<<"1">>, <<"1", "2">>}
Slugs == {<<"a">>, <<"a", "-", "b">>, <<"a", "-", "3">>, <<"3">>}
OtherOrigin ==
    <<"h", "t", "t", "p", ":", "/", "/", "l", "i", "n", "k", "e", "d", "i", "n",
      ".", "c", "o", "m">>
Prefixes == {<<>>, ORIGIN, OtherOrigin}
Slashes == {<<>>, <<"/">>}
Suffixes ==
    {<<>>, <<"?", "x">>, <<"#", "y">>, <<"?", "x", "#", "y">>, <<"#", "y", "?", "x">>,
     <<"?", "x">> \o JOBS_VIEW \o <<"9">>}
Decorations == [prefix : Prefixes, slash : Slashes, suffix : Suffixes]

NumericForm(id, d) == d.prefix \o JOBS_VIEW \o id \o d.slash \o d.suffix
SlugForm(slug, id, d) ==
    d.prefix \o JOBS_VIEW \o slug \o <<"-">> \o id \o d.slash \o d.suffix

InitUrl ==
    /\ CoordinatorIdle
    /\ \E id \in JobIds, slug \in Slugs, da \in Decorations, db \in Decorations :
         /\ job_id = id
         /\ raw_a = NumericForm(id, da)
         /\ raw_b = SlugForm(slug, id, db)
    /\ norm_a = <<>> /\ norm_b = <<>>
    /\ text_parts = <<>> /\ is_small = FALSE
    /\ f_urls = <<>> /\ f_web = NoWeb /\ f_results = <<>>
    /\ phase = "url_in"

Normalize ==
    /\ phase = "url_in"
    /\ norm_a' = normalize_job_url(raw_a)
    /\ norm_b' = normalize_job_url(raw_b)
    /\ phase' = "url_out"
    /\ UNCHANGED <<coordinator_vars, raw_a, raw_b, job_id, text_parts, is_small,
                   f_urls, f_web, f_results>>

NextUrl == Normalize

SpecUrl == InitUrl /\ [][NextUrl]_vars

\* text nodes of a company page
Chars1To10   == <<"1", "-", "1", "0", " ">> \o EMPLOYEES
Chars11To50  == <<"1", "1", " ", "-", " ", "5", "0", " ",
                  "E", "m", "p", "l", "o", "y", "e", "e">>
Chars1       == <<"1", " ", "e", "m", "p", "l", "o", "y", "e", "e">>
Chars2To10   == <<"2", "-", "1", "0", " ">> \o EMPLOYEES
Chars51To200 == <<"5", "1", "-", "2", "0", "0", " ">> \o EMPLOYEES
Chars75      == <<"7", "5", " ">> \o EMPLOYEES
Chars10001   == <<"1", "0", "0", "0", "1", "+", " ">> \o EMPLOYEES
Chars25      == <<"2", "5", " ">> \o EMPLOYEES
Chars1Plural == <<"1", " ">> \o EMPLOYEES

InRangePhrases == {Chars1To10, Chars11To50, Chars1, Chars2To10}
OutOfRangePhrases == {Chars51To200, TextLarge, Chars75, Chars10001}
OtherPhrases == {TextNone, Chars25, Chars1Plural}
Phrases == InRangePhrases \cup OutOfRangePhrases \cup OtherPhrases

\* soup.get_text(separator=" ", strip=True)
RECURSIVE get_text(_)
get_text(parts) ==
    IF parts = <<>> THEN <<>>
    ELSE IF Len(parts) = 1 THEN parts[1]
    ELSE parts[1] \o <<" ">> \o get_text(Tail(parts))

InitSize ==
    /\ CoordinatorIdle
    /\ raw_a = <<>> /\ raw_b = <<>> /\ job_id = <<>>
    /\ norm_a = <<>> /\ norm_b = <<>>
    /\ text_parts \in UNION { [1..n -> Phrases] : n \in 1..MaxParts }
    /\ is_small = FALSE
    /\ f_urls = <<>> /\ f_web = NoWeb /\ f_results = <<>>
    /\ phase = "size_in"

Classify ==
    /\ phase = "size_in"
    /\ is_small' = _parse_employee_range_from_text(get_text(text_parts))
    /\ phase' = "size_out"
    /\ UNCHANGED <<coordinator_vars, raw_a, raw_b, job_id, norm_a, norm_b,
                   text_parts, f_urls, f_web, f_results>>

NextSize == Classify

SpecSize == InitSize /\ [][NextSize]_vars

\* candidate URLs, and the answers of the site for them
InitFilter ==
    /\ CoordinatorIdle
    /\ raw_a = <<>> /\ raw_b = <<>> /\ job_id = <<>>
    /\ norm_a = <<>> /\ norm_b = <<>>
    /\ text_parts = <<>> /\ is_small = FALSE
    /\ \E S \in SUBSET JobUrls :
         /\ f_urls = Sorted(S)
         /\ \E d \in [S -> DetailResults], c \in [S -> CompanyResults] :
              f_web = [detail  |-> [u \in JobUrls |-> IF u \in S THEN d[u]
                                                      ELSE FetchFailed],
                       company |-> [u \in JobUrls |-> IF u \in S THEN c[u]
                                                      ELSE CompanyFetchFailed]]
    /\ f_results = <<>>
    /\ phase = "filter_in"

Filter ==
    /\ phase = "filter_in"
    /\ f_results' = filter_first_party_jobs(f_urls, f_web)
    /\ phase' = "filter_out"
    /\ UNCHANGED <<coordinator_vars, raw_a, raw_b, job_id, norm_a, norm_b,
                   text_parts, is_small, f_urls, f_web>>

NextFilter == Filter

SpecFilter == InitFilter /\ [][NextFilter]_vars

(***************************************************************************)
(* Properties.                                                             *)
(***************************************************************************)

FinishStep == pc = "deliver" /\ pc' = "sleep"
BeginStep == pc = "sleep" /\ pc' = "deliver"
AbortStep == pc = "deliver" /\ pc' = "stopped"

\* the new jobs of the cycle that count as delivered, in pipeline order
Delivered ==
    LET D(j) == slack_token = "" \/ j.url \in send_ok
    IN  SelectSeq(new_jobs, D)

\* C1: a posting is present in the store, as load_existing_job_urls reads
\* it, if and only if in some completed cycle it was accepted by the filter
\* pipeline and either no token was set or its notification succeeded.
StoredIffAcceptedAndDelivered ==
    load_existing_job_urls(store) = IdentitiesOf(ok_ever)

\* a completed cycle with a token in which one accepted job was delivered and
\* stored and another failed and was left out
WitnessStoredIff ==
    /\ pc = "sleep" /\ last.valid /\ slack_token # ""
    /\ send_ok # {} /\ send_ok \subseteq FieldsOf(store)
    /\ \E u \in send_failed : StoredIdentity(u) \notin load_existing_job_urls(store)

\* C2: a failed delivery adds nothing to the store and to the posted list;
\* the rows a cycle adds hold no job whose delivery failed in it (none at
\* all when every delivery failed); a job whose delivery failed and whose
\* posting was not stored since is classified as new by every cycle that
\* accepts it, its delivery is attempted, and it is in the store at the end
\* of the cycle in which the delivery succeeds.
FailedDeliveryKeepsCandidate ==
    [][ /\ (pc = "deliver" /\ send_failed' # send_failed) =>
             store' = store /\ jobs_posted_to_slack' = jobs_posted_to_slack
        /\ FinishStep =>
             /\ FieldsOf(Added(store, store')) \cap send_failed = {}
             /\ (slack_token # "" /\ send_ok = {}) => Len(store') = Len(store)
             /\ slack_token # "" =>
                  UrlsOf(new_jobs) \subseteq (send_ok \cup send_failed)
             /\ send_ok \subseteq FieldsOf(Added(store, store'))
        /\ BeginStep =>
             \A u \in pending : u \in UrlsOf(jobs') => u \in UrlsOf(new_jobs')
      ]_vars

\* the delivery of a job that failed in an earlier cycle now succeeds
WitnessRetrySucceeds ==
    /\ pc = "deliver" /\ cycles >= 2
    /\ \E u \in pending : u \in send_ok /\ u \notin FieldsOf(store)

\* C3 (as claimed): a cycle without a token whose discovery and filter
\* result equals that of the preceding completed cycle, also run without a
\* token, appends no row.
DedupIdempotence ==
    [][ (FinishStep /\ slack_token = "" /\ last.valid /\ ~last.notifier
         /\ last.jobs = jobs) => store' = store ]_vars

\* C4: the store only grows at its end, and only in the step that closes a
\* cycle; that step adds one row per delivered new job, in pipeline order,
\* and leaves the file alone when nothing was delivered.
CycleOnlyAppendsDelivered ==
    [][ /\ Len(store') >= Len(store)
        /\ SubSeq(store', 1, Len(store)) = store
        /\ store' # store => FinishStep
        /\ FinishStep =>
             /\ Len(Added(store, store')) = Len(Delivered)
             /\ \A k \in 1..Len(Delivered) :
                  Added(store, store')[k] =
                    [company |-> Delivered[k].company_name,
                     job_url |-> Delivered[k].url]
             /\ Delivered = <<>> => (store' = store /\ file_exists' = file_exists)
      ]_vars

\* a cycle has added two rows behind the rows of an earlier cycle
WitnessAppendBehind ==
    /\ pc = "sleep" /\ last.valid
    /\ last.appended = 2 /\ Len(store) >= 3
    /\ store[Len(store) - 1].job_url # store[Len(store)].job_url

\* C5 (as claimed): the process stops for an external interruption only.
OnlyInterruptionStops ==
    pc = "stopped" => stop_cause = "KeyboardInterrupt"

\* C6: the output of filter_first_party_jobs is the input with exactly the
\* URLs removed whose detail fetch failed, whose document is third-party,
\* has no company link, whose company fetch failed or whose company is not
\* small; the order is that of the input.
FilterKeepsExactlyPassing ==
    phase = "filter_out" =>
      LET Passes(u) ==
            /\ f_web.detail[u].status = "ok"
            /\ ~(f_web.detail[u].header /\ f_web.detail[u].via)
            /\ ~f_web.detail[u].third_party_apply
            /\ f_web.detail[u].header /\ f_web.detail[u].company_url # ""
            /\ f_web.company[u].status = "ok"
            /\ f_web.company[u].text = TextSmall
      IN  [k \in 1..Len(f_results) |-> f_results[k].url] = SelectSeq(f_urls, Passes)

\* the first URL fails to load, a later one is kept
WitnessFilterIsolation ==
    /\ phase = "filter_out" /\ Len(f_urls) = 3
    /\ f_web.detail[f_urls[1]].status = "RequestException"
    /\ f_web.company[f_urls[2]].status = "RequestException"
    /\ Len(f_results) = 1 /\ f_results[1].url = f_urls[3]

\* C7: the numeric form and the slug form of one posting, with or without
\* scheme and host, trailing slash, query and fragment, normalize to the
\* same string, the origin followed by /jobs/view/ and the job id.
FormsNormalizeAlike ==
    phase = "url_out" =>
      /\ norm_a = norm_b
      /\ norm_a = ORIGIN \o JOBS_VIEW \o job_id

\* a relative numeric form with slash and query, an absolute slug form whose
\* slug itself ends in a number
WitnessFormsNormalizeAlike ==
    /\ phase = "url_out"
    /\ raw_a = JOBS_VIEW \o <<"1", "2", "/", "?", "x", "#", "y">>
    /\ raw_b = OtherOrigin \o JOBS_VIEW \o <<"a", "-", "3", "-", "1", "2", "#", "y", "?", "x">>
    /\ norm_a = norm_b

\* C8: the result is true exactly when one of the text nodes is an in-range
\* phrase, whether or not an out-of-range phrase is present too.
SmallIffInRangePhrase ==
    phase = "size_out" =>
      (is_small <=> \E k \in 1..Len(text_parts) : text_parts[k] \in InRangePhrases)

\* an out-of-range phrase comes first, an in-range phrase follows
WitnessInRangeWins ==
    /\ phase = "size_out" /\ Len(text_parts) = 2
    /\ text_parts[1] \in OutOfRangePhrases
    /\ text_parts[2] \in InRangePhrases
    /\ is_small

\* C9 (as claimed): no job URL is in two rows, and the total of the last
\* report is the number of rows.
OneRowPerUrl ==
    /\ \A m, n \in 1..Len(store) : m # n => store[m].job_url # store[n].job_url
    /\ (pc = "sleep" /\ last.valid) => total = Len(store)

\* C10: the store changes only once the loop is over: with a token, every
\* new job has then had its delivery attempt and every row added is of a
\* job whose notification succeeded; a cycle cut off during the loop adds
\* no row; a job notified in such a cycle is classified as new by the next
\* cycle that accepts it, and each loop iteration with a token is a
\* delivery attempt.
AppendOnlyAfterAllDeliveries ==
    [][ /\ store' # store =>
             /\ idx > Len(new_jobs)
             /\ slack_token # "" =>
                  /\ UrlsOf(new_jobs) \subseteq (send_ok \cup send_failed)
                  /\ FieldsOf(Added(store, store')) \subseteq send_ok
        /\ AbortStep => store' = store
        /\ BeginStep =>
             \A u \in lost : u \in UrlsOf(jobs') => u \in UrlsOf(new_jobs')
        /\ (pc = "deliver" /\ pc' = "deliver" /\ slack_token # "") =>
             new_jobs[idx].url \in (send_ok' \cup send_failed')
      ]_vars

\* a job notified in an interrupted cycle is notified again
WitnessNotifiedAgain ==
    /\ pc = "deliver"
    /\ \E u \in lost : u \in send_ok /\ u \notin FieldsOf(store)

====
